---------------------------- MODULE Spec2Model ----------------------------
(***************************************************************************)
(* State machine of src/src/AmanAgrawalProfile.jsx: the theme preference   *)
(* (React state darkMode, the localStorage entry 'theme', the 'dark' class *)
(* of the document root) and the two modal slots (isAboutModalOpen,        *)
(* isDetailModalOpen, the shared modalContent, document.body.style         *)
(* .overflow written by the effect of each Modal instance).                *)
(*                                                                         *)
(* One action is one browser event together with the render and the        *)
(* passive effects React commits for it.                                   *)
(***************************************************************************)
EXTENDS Integers, Sequences, FiniteSets, TLC

VARIABLES
    phase,              \* "unloaded" | "server" | "mounted" | "unmounted"
    prefersDark,        \* window.matchMedia('(prefers-color-scheme: dark)').matches
    storage,            \* localStorage entry 'theme' (NoValue: getItem gives null)
    rootDark,           \* document.documentElement.classList has 'dark'
    overflow,           \* document.body.style.overflow
    darkMode,           \* useState, line 168
    isAboutModalOpen,   \* useState, line 180
    isDetailModalOpen,  \* useState, line 181
    modalContent,       \* useState, line 182
    lastEvent,          \* history: the event handled last
    hist,               \* history: the last HistLen modal handler calls of the session
    lastArgs,           \* history: the button and arguments of the open handled last
    prevTheme,          \* history: theme in effect when the previous session ended
    savedRead,          \* history: what localStorage.getItem gave the last initializer
    storageAvailable,   \* environment: reading localStorage does not throw
    toggled,            \* history: the themes before each of the last two successive toggles
    imgSrc,             \* src of the profile <img> element in the document (line 383)
    imgLoaded,          \* that element has finished loading its src
    placeholderSets,    \* history: times the session set the placeholder URL (capped)
    rendered            \* the cards of each content section in the rendered tree

themeVars == <<darkMode, storage, rootDark>>
modalVars == <<isAboutModalOpen, isDetailModalOpen, modalContent, overflow>>
imageVars == <<imgSrc, imgLoaded>>
histVars  == <<lastEvent, hist, lastArgs, prevTheme, savedRead, toggled, placeholderSets>>
vars == <<phase, prefersDark, storageAvailable, themeVars, modalVars, imageVars, rendered,
          histVars>>

-----------------------------------------------------------------------------
(* Bounds and data *)

\* number of modal handler calls the history keeps
HistLen == 3

\* cap of the count of placeholder assignments
MaxSets == 2

\* localStorage.getItem('theme') === null
NoValue == "<null>"

\* localStorage.getItem('theme') threw (line 170)
Throws == "<throws>"

\* values the 'theme' entry can hold when a session starts: absent, the two
\* values the page writes, and strings something else on the origin wrote
StoredValues == {NoValue, "dark", "light", "", "system"}

\* the object literal of line 182 and of line 225
EmptyContent == [title |-> "", desc |-> ""]

\* the object literal of lines 202-205 (text abbreviated)
AboutContent == [title |-> "My Full Journey: Passion, Purpose, and Progress",
                 desc  |-> "My professional journey is driven by ..."]

\* entries of experienceTimeline, lines 231-262 (two of the five; text abbreviated)
experienceTimeline ==
    << [title |-> "Technical Assistant, Tata Power DDL",
        details |-> "Worked directly under CTO office ..."],
       [title |-> "Senior Systems Engineer, Infosys",
        details |-> "Spearheaded client communication ..."] >>

\* entries of projects, lines 285-301 (one of the three)
projects ==
    << [title |-> "Predictive Telecom Analysis",
        details |-> "This project involved a comprehensive analysis ..."] >>

\* entries of certifications, lines 320-325 (one of the four)
certifications == << [name |-> "Lean Six Sigma Green Belt"] >>

\* the template literal of line 676
CertDetails(name) == "Details for " \o name \o " certification. ..."

\* JavaScript truthiness of a string-or-null, as used at lines 171 and 482
Truthy(s) == s # NoValue /\ s # ""

\* entries of skills, lines 264-283 (three of the eighteen)
skills ==
    << [name |-> "SAP BI/BO", level |-> "Expert"],
       [name |-> "Excel", level |-> "Advanced"],
       [name |-> "Power BI", level |-> "Intermediate"] >>

\* entries of testimonials, lines 309-318
testimonials == << [name |-> "Mentor @ Infosys"], [name |-> "Manager @ Tata Power DDL"] >>

\* entries of careerNumbers, lines 327-332 (two of the four)
careerNumbers ==
    << [label |-> "Years of Experience", value |-> "3+"],
       [label |-> "Projects Completed", value |-> "20+"] >>

\* entries of readingLearning, lines 334-345
readingLearning ==
    << [title |-> "Top 10 Business Analytics Books"],
       [title |-> "Weekly AI & Data Science Digest"] >>

\* The timeline prop ExperienceSection is exercised with: the array of the
\* source followed by one entry that has no details. No entry of the source
\* lacks details; the field is read as optional at line 482.
TimelineProp ==
    Append(experienceTimeline, [title |-> "Entry without details", details |-> NoValue])

Sections ==
    {"experience", "skills", "projects", "testimonials", "certifications", "metrics",
     "articles"}

\* the array each section is given, lines 853-862
Content(section) ==
    CASE section = "experience"     -> TimelineProp
      [] section = "skills"         -> skills
      [] section = "projects"       -> projects
      [] section = "testimonials"   -> testimonials
      [] section = "certifications" -> certifications
      [] section = "metrics"        -> careerNumbers
      [] section = "articles"       -> readingLearning

\* a card that renders no detail button
NoButton == [title |-> NoValue, desc |-> NoValue]

\* an experience card whose button is rendered whether or not details exist
ExperienceCard_AlwaysButton(item, index) ==
    [key |-> index, text |-> item.title,
     button |-> [title |-> item.title, desc |-> item.details]]

\* lines 477-493: the card of one timeline entry; the button only with details
ExperienceCard(item, index) ==
    [key |-> index, text |-> item.title,
     button |-> IF Truthy(item.details) THEN [title |-> item.title, desc |-> item.details]
                ELSE NoButton]

\* lines 522-532
SkillCard(skill, index) == [key |-> index, text |-> skill.name, button |-> NoButton]

\* lines 561-571
ProjectCard(p, i) ==
    [key |-> i, text |-> p.title, button |-> [title |-> p.title, desc |-> p.details]]

\* lines 631-639
TestimonialCard(test, i) == [key |-> i, text |-> test.name, button |-> NoButton]

\* lines 668-679
CertificationCard(cert, index) ==
    [key |-> index, text |-> cert.name,
     button |-> [title |-> cert.name, desc |-> CertDetails(cert.name)]]

\* lines 773-780
NumberCard(item, i) == [key |-> i, text |-> item.label, button |-> NoButton]

\* lines 809-819
ArticleCard(blog, i) == [key |-> i, text |-> blog.title, button |-> NoButton]

\* an ExperienceSection that renders only the entries that have details
ExperienceSection_OnlyDetailed(timeline) ==
    LET detailed == SelectSeq(timeline, LAMBDA item : Truthy(item.details))
    IN  [i \in 1..Len(detailed) |-> ExperienceCard(detailed[i], i - 1)]

\* line 476
ExperienceSection(timeline) == [i \in 1..Len(timeline) |-> ExperienceCard(timeline[i], i - 1)]

\* line 521
SkillsSection(skillsList) == [i \in 1..Len(skillsList) |-> SkillCard(skillsList[i], i - 1)]

\* line 560
ProjectsSection(projectsList) == [i \in 1..Len(projectsList) |-> ProjectCard(projectsList[i], i - 1)]

\* line 630
TestimonialsSection(testimonialsList) == [i \in 1..Len(testimonialsList) |-> TestimonialCard(testimonialsList[i], i - 1)]

\* line 667
CertificationsSection(certsList) == [i \in 1..Len(certsList) |-> CertificationCard(certsList[i], i - 1)]

\* line 772
CareerNumbersSection(numbersList) == [i \in 1..Len(numbersList) |-> NumberCard(numbersList[i], i - 1)]

\* line 808
ReadingLearningSection(articlesList) == [i \in 1..Len(articlesList) |-> ArticleCard(articlesList[i], i - 1)]

\* the content sections of the returned tree, lines 853-862
Render ==
    [section \in Sections |->
        CASE section = "experience"     -> ExperienceSection(Content(section))
          [] section = "skills"         -> SkillsSection(Content(section))
          [] section = "projects"       -> ProjectsSection(Content(section))
          [] section = "testimonials"   -> TestimonialsSection(Content(section))
          [] section = "certifications" -> CertificationsSection(Content(section))
          [] section = "metrics"        -> CareerNumbersSection(Content(section))
          [] section = "articles"       -> ReadingLearningSection(Content(section))]

\* nothing is rendered
NothingRendered == [section \in Sections |-> << >>]

\* the detail buttons of the rendered tree with the (title, desc) each passes
\* to openDetailModal: lines 482-485 (only entries with details), 566, 676
DetailButtons ==
    {[section |-> p[1], index |-> rendered[p[1]][p[2]].key,
      title |-> rendered[p[1]][p[2]].button.title,
      desc |-> rendered[p[1]][p[2]].button.desc] :
        p \in {q \in UNION {{sec} \X DOMAIN rendered[sec] : sec \in Sections} :
                  rendered[q[1]][q[2]].button # NoButton}}

Slots == {"about", "detail"}

\* the URL of line 229 (abbreviated)
profileImage == "https://media.licdn.com/.../profile-displayphoto-shrink_800_800/..."

\* the URL of line 389
Placeholder == "https://placehold.co/144x144/cccccc/ffffff?text=Profile"

\* no <img> element exists
NoImage == "<none>"

-----------------------------------------------------------------------------
(* Theme controller *)

\* GetInitialTheme with the ambient signal consulted before the persisted value
GetInitialTheme_AmbientFirst(hasWindow, savedTheme, matches) ==
    IF hasWindow
    THEN IF matches THEN TRUE ELSE savedTheme = "dark"
    ELSE FALSE

\* GetInitialTheme without the matchMedia fallback
GetInitialTheme_NoAmbient(hasWindow, savedTheme, matches) ==
    IF hasWindow
    THEN IF Truthy(savedTheme) THEN savedTheme = "dark" ELSE FALSE
    ELSE FALSE

\* GetInitialTheme defaulting to dark when there is no window
GetInitialTheme_DefaultDark(hasWindow, savedTheme, matches) ==
    IF hasWindow
    THEN IF Truthy(savedTheme) THEN savedTheme = "dark" ELSE matches
    ELSE TRUE

\* GetInitialTheme that accepts only "light" and "dark" as persisted values and
\* falls back to the ambient signal for anything else
GetInitialTheme_Validated(hasWindow, savedTheme, matches) ==
    IF hasWindow
    THEN IF savedTheme \in {"light", "dark"} THEN savedTheme = "dark" ELSE matches
    ELSE FALSE

\* the useState initializer, lines 168-177
GetInitialTheme(hasWindow, savedTheme, matches) ==
    IF hasWindow
    THEN IF Truthy(savedTheme) THEN savedTheme = "dark" ELSE matches
    ELSE FALSE

\* the theme effect without classList.remove in its else branch
ThemeEffectRoot_NoRemove(dm, hadDark) == IF dm THEN TRUE ELSE hadDark

\* the theme effect with classList.toggle('dark') in place of classList.add
ThemeEffectRoot_Toggle(dm, hadDark) == IF dm THEN ~hadDark ELSE FALSE

\* classList.add('dark') / classList.remove('dark'), lines 187 and 190
ThemeEffectRoot(dm, hadDark) == IF dm THEN TRUE ELSE FALSE

\* the theme effect without its localStorage.setItem calls
ThemeEffectStorage_NotPersisted(dm, old) == old

\* localStorage.setItem('theme', ...), lines 188 and 191
ThemeEffectStorage(dm, old) == IF dm THEN "dark" ELSE "light"

\* an updater that negates the darkMode of the render that created the handler
ToggleUpdater_Stale(prevMode, renderedMode) == ~renderedMode

\* the updater prevMode => !prevMode of line 197; renderedMode is the darkMode
\* of the render that created the handler, which the updater does not read
ToggleUpdater(prevMode, renderedMode) == ~prevMode

\* a toggle handler that also dismisses whatever modal is open
toggleDarkMode_ClosesModals ==
    /\ darkMode' = ToggleUpdater(darkMode, darkMode)
    /\ isAboutModalOpen' = FALSE
    /\ isDetailModalOpen' = FALSE
    /\ modalContent' = EmptyContent

\* setDarkMode(prevMode => !prevMode), line 197
toggleDarkMode ==
    /\ darkMode' = ToggleUpdater(darkMode, darkMode)
    /\ UNCHANGED <<isAboutModalOpen, isDetailModalOpen, modalContent>>

\* toggleDarkMode called twice before React renders: both updaters are queued
\* and applied in order to the pending state
toggleDarkModeTwice ==
    /\ darkMode' = ToggleUpdater(ToggleUpdater(darkMode, darkMode), darkMode)
    /\ UNCHANGED <<isAboutModalOpen, isDetailModalOpen, modalContent>>

-----------------------------------------------------------------------------
(* Modal controller *)

\* body of the Modal effect, lines 87-91
ModalEffect(isOpen, ov) == IF isOpen THEN "hidden" ELSE "unset"

\* cleanup of the Modal effect, lines 92-94
ModalCleanup(ov) == "unset"

\* a Modal effect without its dependency array: it runs on every render
RunModalEffect_NoDeps(wasOpen, isOpen, ov) == ModalEffect(isOpen, ModalCleanup(ov))

\* a Modal effect that locks on open and has neither else branch nor cleanup
RunModalEffect_NoRelease(wasOpen, isOpen, ov) == IF isOpen THEN "hidden" ELSE ov

\* useEffect(..., [isOpen]) of one Modal instance across a re-render: when the
\* dependency changed the previous cleanup runs and then the body, lines 86-95
RunModalEffect(wasOpen, isOpen, ov) ==
    IF wasOpen = isOpen THEN ov ELSE ModalEffect(isOpen, ModalCleanup(ov))

\* lines 201-207
openAboutModal ==
    /\ modalContent' = AboutContent
    /\ isAboutModalOpen' = TRUE
    /\ UNCHANGED <<isDetailModalOpen, darkMode>>

\* line 210
closeAboutModal ==
    /\ isAboutModalOpen' = FALSE
    /\ UNCHANGED <<isDetailModalOpen, modalContent, darkMode>>

\* openDetailModal with the two fields of the content object swapped
openDetailModal_Swapped(title, desc) ==
    /\ modalContent' = [title |-> desc, desc |-> title]
    /\ isDetailModalOpen' = TRUE
    /\ UNCHANGED <<isAboutModalOpen, darkMode>>

\* lines 217-220
openDetailModal(title, desc) ==
    /\ modalContent' = [title |-> title, desc |-> desc]
    /\ isDetailModalOpen' = TRUE
    /\ UNCHANGED <<isAboutModalOpen, darkMode>>

\* lines 223-226
closeDetailModal ==
    /\ isDetailModalOpen' = FALSE
    /\ modalContent' = EmptyContent
    /\ UNCHANGED <<isAboutModalOpen, darkMode>>

\* the onClose prop each Modal instance is given, lines 866 and 869
OnClose(slot) == IF slot = "about" THEN closeAboutModal ELSE closeDetailModal

\* the isOpen prop each Modal instance is given, lines 866 and 869
IsOpen(slot) == IF slot = "about" THEN isAboutModalOpen ELSE isDetailModalOpen

\* Modal instances that do not share the content: the about slot shows its own text
Displayed_OwnAbout(slot) ==
    IF ~IsOpen(slot) THEN [title |-> NoValue, body |-> NoValue]
    ELSE IF slot = "about" THEN [title |-> AboutContent.title, body |-> AboutContent.desc]
    ELSE [title |-> modalContent.title, body |-> modalContent.desc]

\* what a Modal instance shows: nothing when closed (line 97), else the title
\* (line 118) and children (line 121) it is given at lines 866-871
Displayed(slot) ==
    IF IsOpen(slot) THEN [title |-> modalContent.title, body |-> modalContent.desc]
    ELSE [title |-> NoValue, body |-> NoValue]

\* the scroll lock: body overflow is 'hidden', line 88
ScrollLocked == overflow = "hidden"

-----------------------------------------------------------------------------
(* Render and effects *)

\* Re-render after a state update: the effects whose dependencies changed run,
\* children (the two Modal instances, in document order) before the parent
\* (the theme effect, lines 185-193).
Commit ==
    /\ overflow' = RunModalEffect(isDetailModalOpen, isDetailModalOpen',
                       RunModalEffect(isAboutModalOpen, isAboutModalOpen', overflow))
    /\ rootDark' = IF darkMode' # darkMode THEN ThemeEffectRoot(darkMode', rootDark)
                   ELSE rootDark
    /\ storage' = IF darkMode' # darkMode THEN ThemeEffectStorage(darkMode', storage)
                  ELSE storage

\* A re-render with changed state: HeroSection is a new function on every
\* render of AmanAgrawalProfile (line 370), so React unmounts the previous
\* HeroSection subtree and mounts a new one, whose <img> loads profileImage
\* (line 383).
HeroRemount ==
    /\ imgSrc' = profileImage
    /\ imgLoaded' = FALSE

\* the img onError handler, line 389: onerror = null changes the element's
\* own property, not the listener React attached for the onError prop; then
\* the src is replaced and the element loads the placeholder
OnImageError ==
    /\ imgSrc' = Placeholder
    /\ imgLoaded' = FALSE

\* a re-render with changed state: the returned tree replaces the rendered one
Rerender ==
    /\ HeroRemount
    /\ rendered' = Render

\* history of the modal handler calls, newest last
Record(e) ==
    hist' = IF Len(hist) < HistLen THEN Append(hist, e) ELSE Append(Tail(hist), e)

Ev(op) == [op |-> op]

\* the last event was no open
NoArgs == [section |-> NoValue, index |-> 0, title |-> NoValue, desc |-> NoValue]

\* a first render whose theme is applied and persisted only by the toggle
\* handler, not by an effect that also runs on mount
Mount_NoInitialEffect(ov, hadDark, matches) ==
    /\ prefersDark' = matches
    /\ savedRead' = storage
    /\ darkMode' = GetInitialTheme(TRUE, storage, matches)
    /\ isAboutModalOpen' = FALSE
    /\ isDetailModalOpen' = FALSE
    /\ modalContent' = EmptyContent
    /\ overflow' = ModalEffect(FALSE, ModalEffect(FALSE, ov))
    /\ rootDark' = hadDark
    /\ storage' = storage
    /\ phase' = "mounted"
    /\ hist' = << >>
    /\ lastArgs' = NoArgs
    /\ Rerender
    /\ placeholderSets' = 0

\* First render of AmanAgrawalProfile in a document whose body overflow is ov
\* and whose root has the dark class iff hadDark: the initializers (lines
\* 168-182), then every effect (lines 86-95 twice, then 185-193).
Mount(ov, hadDark, matches) ==
    /\ prefersDark' = matches
    /\ savedRead' = storage
    /\ darkMode' = GetInitialTheme(TRUE, storage, matches)
    /\ isAboutModalOpen' = FALSE
    /\ isDetailModalOpen' = FALSE
    /\ modalContent' = EmptyContent
    /\ overflow' = ModalEffect(FALSE, ModalEffect(FALSE, ov))
    /\ rootDark' = ThemeEffectRoot(darkMode', hadDark)
    /\ storage' = ThemeEffectStorage(darkMode', storage)
    /\ phase' = "mounted"
    /\ hist' = << >>
    /\ lastArgs' = NoArgs
    /\ Rerender
    /\ placeholderSets' = 0

ThemeName(dm) == IF dm THEN "dark" ELSE "light"

-----------------------------------------------------------------------------
(* Events *)

\* the page is rendered without a window (typeof window === 'undefined',
\* line 169); effects do not run
ServerRender ==
    /\ phase = "unloaded"
    /\ phase' = "server"
    /\ darkMode' = GetInitialTheme(FALSE, NoValue, FALSE)
    /\ lastEvent' = "server"
    /\ rendered' = Render
    /\ UNCHANGED <<prefersDark, storageAvailable, storage, rootDark, modalVars, hist,
                   lastArgs, prevTheme, savedRead, toggled, imageVars, placeholderSets>>

\* First render in a new document when reading localStorage throws: line 170
\* throws inside the initializer, nothing catches it, and React renders nothing.
Crash ==
    /\ phase' = "crashed"
    /\ savedRead' = Throws
    /\ darkMode' = FALSE
    /\ isAboutModalOpen' = FALSE
    /\ isDetailModalOpen' = FALSE
    /\ modalContent' = EmptyContent
    /\ overflow' = ""
    /\ rootDark' = FALSE
    /\ hist' = << >>
    /\ lastArgs' = NoArgs
    /\ imgSrc' = NoImage
    /\ imgLoaded' = FALSE
    /\ placeholderSets' = 0
    /\ rendered' = NothingRendered
    /\ UNCHANGED <<prefersDark, storage>>

\* the page is loaded (or reloaded) in a browser: a new document
LoadPage ==
    /\ IF storageAvailable
       THEN \E matches \in BOOLEAN : Mount("", FALSE, matches)
       ELSE Crash
    /\ prevTheme' = IF phase = "mounted" THEN ThemeName(darkMode) ELSE prevTheme
    /\ lastEvent' = "load"
    /\ toggled' = << >>
    /\ UNCHANGED storageAvailable

\* the component is unmounted: every effect's cleanup runs (lines 92-94)
Unmount ==
    /\ phase = "mounted"
    /\ phase' = "unmounted"
    /\ overflow' = ModalCleanup(ModalCleanup(overflow))
    /\ prevTheme' = ThemeName(darkMode)
    /\ lastEvent' = "unmount"
    /\ hist' = << >>
    /\ lastArgs' = NoArgs
    /\ toggled' = << >>
    /\ darkMode' = FALSE
    /\ isAboutModalOpen' = FALSE
    /\ isDetailModalOpen' = FALSE
    /\ modalContent' = EmptyContent
    /\ imgSrc' = NoImage
    /\ imgLoaded' = FALSE
    /\ placeholderSets' = 0
    /\ rendered' = NothingRendered
    /\ UNCHANGED <<prefersDark, storageAvailable, storage, rootDark, savedRead>>

\* the component is mounted again in the same document
Remount ==
    /\ phase = "unmounted"
    /\ \E matches \in BOOLEAN : Mount(overflow, rootDark, matches)
    /\ lastEvent' = "remount"
    /\ toggled' = << >>
    /\ UNCHANGED <<prevTheme, storageAvailable>>

\* history of the themes before the last two successive toggles, newest last
RecordToggles(before) ==
    toggled' = LET all == toggled \o before
               IN  IF Len(all) <= 2 THEN all ELSE SubSeq(all, Len(all) - 1, Len(all))

\* ThemeToggle (line 145) or the quick-access button (line 743)
ClickThemeToggle ==
    /\ phase = "mounted"
    /\ toggleDarkMode
    /\ Commit
    /\ lastEvent' = "toggle"
    /\ RecordToggles(<<darkMode>>)
    /\ Rerender
    /\ lastArgs' = NoArgs
    /\ UNCHANGED <<phase, prefersDark, storageAvailable, hist, prevTheme, savedRead,
                   placeholderSets>>

\* two activations of a toggle button handled in one React batch: no render
\* and no effect runs between the two calls of toggleDarkMode; the state ends
\* equal to the rendered one, so React keeps the rendered tree
ClickThemeToggleTwice ==
    /\ phase = "mounted"
    /\ toggleDarkModeTwice
    /\ Commit
    /\ lastEvent' = "toggleTwice"
    /\ RecordToggles(<<darkMode, ToggleUpdater(darkMode, darkMode)>>)
    /\ IF darkMode' # darkMode THEN Rerender ELSE UNCHANGED <<imageVars, rendered>>
    /\ lastArgs' = NoArgs
    /\ UNCHANGED <<phase, prefersDark, storageAvailable, hist, prevTheme, savedRead,
                   placeholderSets>>

\* the button of AboutSection, line 449
ClickReadMore ==
    /\ phase = "mounted"
    /\ openAboutModal
    /\ Commit
    /\ lastEvent' = "openAbout"
    /\ Record(Ev("openAbout"))
    /\ lastArgs' = [section |-> "about", index |-> 0, title |-> AboutContent.title,
                     desc |-> AboutContent.desc]
    /\ toggled' = << >>
    /\ Rerender
    /\ UNCHANGED <<phase, prefersDark, storageAvailable, prevTheme, savedRead,
                   placeholderSets>>

\* a detail button of an experience, project or certification card
ClickDetailButton ==
    /\ phase = "mounted"
    /\ \E b \in DetailButtons :
          /\ openDetailModal(b.title, b.desc)
          /\ Record(Ev("openDetail"))
          /\ lastArgs' = b
    /\ Commit
    /\ lastEvent' = "openDetail"
    /\ toggled' = << >>
    /\ Rerender
    /\ UNCHANGED <<phase, prefersDark, storageAvailable, prevTheme, savedRead,
                   placeholderSets>>

\* the close button of an open Modal, line 124
ClickCloseButton ==
    /\ phase = "mounted"
    /\ \E slot \in Slots :
          /\ IsOpen(slot)
          /\ OnClose(slot)
          /\ Record(Ev(IF slot = "about" THEN "closeAbout" ELSE "closeDetail"))
          /\ lastArgs' = NoArgs
    /\ Commit
    /\ lastEvent' = "closeButton"
    /\ toggled' = << >>
    /\ Rerender
    /\ UNCHANGED <<phase, prefersDark, storageAvailable, prevTheme, savedRead,
                   placeholderSets>>

\* a click on the backdrop of an open Modal, line 107
ClickBackdrop ==
    /\ phase = "mounted"
    /\ \E slot \in Slots :
          /\ IsOpen(slot)
          /\ OnClose(slot)
          /\ Record(Ev(IF slot = "about" THEN "closeAbout" ELSE "closeDetail"))
          /\ lastArgs' = NoArgs
    /\ Commit
    /\ lastEvent' = "backdrop"
    /\ toggled' = << >>
    /\ Rerender
    /\ UNCHANGED <<phase, prefersDark, storageAvailable, prevTheme, savedRead,
                   placeholderSets>>

\* the profile image finishes loading
ImageLoaded ==
    /\ phase = "mounted"
    /\ ~imgLoaded
    /\ imgLoaded' = TRUE
    /\ UNCHANGED <<phase, prefersDark, storageAvailable, themeVars, modalVars, imgSrc,
                   rendered, histVars>>

\* the load of the profile image element's src fails: onError, line 389
ImageError ==
    /\ phase = "mounted"
    /\ ~imgLoaded
    /\ OnImageError
    /\ placeholderSets' = IF placeholderSets < MaxSets THEN placeholderSets + 1 ELSE MaxSets
    /\ lastEvent' = "imgError"
    /\ lastArgs' = NoArgs
    /\ UNCHANGED <<phase, prefersDark, storageAvailable, themeVars, modalVars, hist,
                   rendered, prevTheme, savedRead, toggled>>

Init ==
    /\ phase = "unloaded"
    /\ prefersDark \in BOOLEAN
    /\ storage \in StoredValues
    /\ rootDark = FALSE
    /\ overflow = ""
    /\ darkMode = FALSE
    /\ isAboutModalOpen = FALSE
    /\ isDetailModalOpen = FALSE
    /\ modalContent = EmptyContent
    /\ lastEvent = "none"
    /\ hist = << >>
    /\ prevTheme = "none"
    /\ savedRead = NoValue
    /\ storageAvailable \in BOOLEAN
    /\ toggled = << >>
    /\ lastArgs = NoArgs
    /\ imgSrc = NoImage
    /\ imgLoaded = FALSE
    /\ placeholderSets = 0
    /\ rendered = NothingRendered

Next ==
    \/ ServerRender
    \/ LoadPage
    \/ Unmount
    \/ Remount
    \/ ClickThemeToggle
    \/ ClickThemeToggleTwice
    \/ ClickReadMore
    \/ ClickDetailButton
    \/ ClickCloseButton
    \/ ClickBackdrop
    \/ ImageLoaded
    \/ ImageError

Spec == Init /\ [][Next]_vars

-----------------------------------------------------------------------------
(* Properties *)

\* the k-th newest modal handler call of the session (0: the newest)
Past(k) == hist[Len(hist) - k]

AnyOpen == isAboutModalOpen \/ isDetailModalOpen

AboutShown == [title |-> AboutContent.title, body |-> AboutContent.desc]

Closing == lastEvent \in {"closeButton", "backdrop"}

Starting == lastEvent \in {"load", "remount"}

\* C1: while the page is mounted (effects of the last event committed), the
\* scroll lock is engaged exactly when the about slot or the detail slot is open.
C1_LockMirrorsOpen ==
    phase = "mounted" => (ScrollLocked <=> AnyOpen)

\* C2: after open about, open detail, close detail, the about slot is still
\* open and still shows the title and body it was opened with.
C2_CloseDetailKeepsAbout ==
    ( /\ Len(hist) >= 3
      /\ Past(2).op = "openAbout"
      /\ Past(1).op = "openDetail"
      /\ Past(0).op = "closeDetail" )
    => (isAboutModalOpen /\ Displayed("about") = AboutShown)

\* C3: the about slot and the detail slot are never open at the same time.
C3_AtMostOneOpen ==
    ~(isAboutModalOpen /\ isDetailModalOpen)

\* C4: right after an open on a slot, from any prior state, the slot is open
\* and displays exactly the title and body the open was called with (the
\* about slot: its fixed journey title and text).
C4_OpenShowsArguments ==
    /\ lastEvent = "openDetail" =>
          /\ isDetailModalOpen
          /\ Displayed("detail") = [title |-> lastArgs.title, body |-> lastArgs.desc]
    /\ lastEvent = "openAbout" =>
          /\ isAboutModalOpen
          /\ Displayed("about") = AboutShown

\* C4 witness: a detail open called while the about slot was open and showing
\* the about text; the detail slot shows the button's own title and body.
C4_Witness ==
    /\ lastEvent = "openDetail"
    /\ Len(hist) >= 2
    /\ Past(1).op = "openAbout"
    /\ isAboutModalOpen
    /\ Displayed("detail") = [title |-> projects[1].title, body |-> projects[1].details]

\* C5: right after a close of either slot, that slot is closed and the stored
\* title and body are empty.
C5_CloseClearsContent ==
    Closing =>
        /\ Past(0).op = "closeAbout" => ~isAboutModalOpen
        /\ Past(0).op = "closeDetail" => ~isDetailModalOpen
        /\ modalContent = EmptyContent

\* C6: whenever every modal slot is closed or the component is not mounted,
\* the page is not scroll-locked (whichever path closed the modal: close
\* button, backdrop, unmount).
C6_NoLockWhenAllClosed ==
    (phase # "mounted" \/ ~AnyOpen) => ~ScrollLocked

\* C6 witness: a backdrop click closed the only open slot, which had locked
\* the page, and the lock is released.
C6_Witness ==
    /\ lastEvent = "backdrop"
    /\ Len(hist) = 2
    /\ Past(1).op = "openDetail"
    /\ Past(0).op = "closeDetail"
    /\ ~AnyOpen
    /\ overflow = "unset"

\* C7: a session that starts after an earlier one starts with the theme that
\* was in effect when the earlier one ended, whatever the ambient signal is.
C7_ThemeSurvivesRestart ==
    (Starting /\ prevTheme # "none") => ThemeName(darkMode) = prevTheme

\* C7 witness: the earlier session ended dark, the new one starts while the
\* ambient signal says light, and it starts dark.
C7_Witness ==
    /\ lastEvent = "load"
    /\ prevTheme = "dark"
    /\ ~prefersDark
    /\ darkMode

\* C8: while the page is mounted (the theme effect has run), the persisted
\* entry is "dark" and the root has the dark marker exactly when the theme is
\* dark; otherwise the entry is "light" and the marker is absent.
C8_ThemeApplied ==
    phase = "mounted" =>
        /\ storage = ThemeName(darkMode)
        /\ rootDark = darkMode

\* C8 witness: a toggle from dark (read from storage at start) to light has
\* been applied.
C8_Witness ==
    /\ lastEvent = "toggle"
    /\ savedRead = "dark"
    /\ ~darkMode
    /\ ~rootDark
    /\ storage = "light"

\* C9: when the persisted value read at start is "light" or "dark", the
\* initial theme is that value, whatever the ambient signal is.
C9_PersistedWins ==
    (Starting /\ savedRead \in {"light", "dark"}) => ThemeName(darkMode) = savedRead

\* C9 witness: a first session finds "dark" persisted while the ambient
\* signal says light, and starts dark.
C9_Witness ==
    /\ lastEvent = "load"
    /\ prevTheme = "none"
    /\ savedRead = "dark"
    /\ ~prefersDark
    /\ darkMode

\* C10: when no persisted value exists at start, the initial theme is the
\* ambient signal's value.
C10_AmbientWhenAbsent ==
    (Starting /\ savedRead = NoValue) => darkMode = prefersDark

\* C10 witness: nothing persisted, the platform prefers dark, the session
\* starts dark.
C10_Witness ==
    /\ lastEvent = "load"
    /\ savedRead = NoValue
    /\ prefersDark
    /\ darkMode

\* C11: a render without a window (no persisted value and no ambient signal
\* can be read) starts light and completes without an error.
C11_HeadlessLight ==
    lastEvent = "server" => (phase = "server" /\ ~darkMode)

\* C11 witness: the page has been rendered without a window and is light.
C11_Witness ==
    /\ phase = "server"
    /\ lastEvent = "server"
    /\ ~darkMode

\* C12: after two successive toggles the theme is the one before the first of
\* them, and so are the root dark flag and the persisted value, whether the
\* two toggles were rendered separately or in one batch.
C12_ToggleInvolution ==
    (phase = "mounted" /\ Len(toggled) = 2) =>
        /\ darkMode = toggled[1]
        /\ rootDark = toggled[1]
        /\ storage = ThemeName(toggled[1])

\* C12 witness: two toggles, each rendered and applied, starting from dark
\* and ending dark.
C12_Witness ==
    /\ lastEvent = "toggle"
    /\ toggled = <<TRUE, FALSE>>
    /\ darkMode
    /\ rootDark
    /\ storage = "dark"

\* C13: when the theme effect runs again for the theme it last applied (the
\* component is mounted again in the same document), the root dark flag and
\* the persisted value stay exactly as the first run left them.
C13_ApplyIdempotent ==
    [][lastEvent' = "remount" => (rootDark' = rootDark /\ storage' = storage)]_vars

\* C13 witness: dark was applied, the component was unmounted and mounted
\* again, dark was applied a second time.
C13_Witness ==
    /\ lastEvent = "remount"
    /\ prevTheme = "dark"
    /\ darkMode
    /\ rootDark
    /\ storage = "dark"

\* C15: when reading the persisted theme fails, the session still starts:
\* the page is mounted with the ambient signal's theme.
C15_SilentFallback ==
    (lastEvent = "load" /\ ~storageAvailable) =>
        (phase = "mounted" /\ darkMode = prefersDark)

ModalEvents == {"openAbout", "openDetail", "closeButton", "backdrop"}

\* C14: a modal open or close and an image-load failure leave the theme, the
\* persisted value and the root dark flag unchanged; a theme toggle leaves the
\* two open flags, the modal title and body and the scroll lock unchanged.
C14_Frame ==
    [][ /\ lastEvent' \in ModalEvents \cup {"imgError"} =>
              UNCHANGED <<darkMode, storage, rootDark>>
        /\ lastEvent' \in {"toggle", "toggleTwice"} =>
              UNCHANGED <<isAboutModalOpen, isDetailModalOpen, modalContent, overflow>>
      ]_vars

\* C14 witness: the theme was toggled while the about slot was open and the
\* page locked; the slot, its content and the lock are as they were.
C14_Witness ==
    /\ lastEvent = "toggle"
    /\ isAboutModalOpen
    /\ ~isDetailModalOpen
    /\ modalContent = AboutContent
    /\ ScrollLocked

\* C16: over a session the placeholder URL is set at most once, and once it
\* has been set the profile image element never requests the primary URL again.
C16_PlaceholderSetOnce ==
    phase = "mounted" =>
        /\ placeholderSets <= 1
        /\ placeholderSets = 1 => imgSrc = Placeholder

\* the text a card of the section shows for an item of its array
ItemText(section, item) ==
    CASE section \in {"experience", "projects", "articles"}          -> item.title
      [] section \in {"skills", "testimonials", "certifications"}    -> item.name
      [] section = "metrics"                                         -> item.label

\* the extended detail text of an item of the section
ItemDetails(section, item) ==
    IF section = "certifications" THEN CertDetails(item.name) ELSE item.details

Shown == phase \in {"mounted", "server"}

\* C17: for every content list the rendered cards are, in order, one per
\* entry of the input array: the i-th card is the card of the i-th entry.
C17_RenderKeepsOrder ==
    Shown =>
        \A section \in Sections :
            /\ Len(rendered[section]) = Len(Content(section))
            /\ \A i \in DOMAIN rendered[section] :
                  /\ rendered[section][i].key = i - 1
                  /\ rendered[section][i].text = ItemText(section, Content(section)[i])

\* C17 witness: after a re-render the experience section shows its three
\* entries in array order, the entry without details included.
C17_Witness ==
    /\ lastEvent = "toggle"
    /\ Len(rendered["experience"]) = 3
    /\ rendered["experience"][1].text = experienceTimeline[1].title
    /\ rendered["experience"][2].text = experienceTimeline[2].title
    /\ rendered["experience"][3].text = TimelineProp[3].title

\* C18: after a detail button is activated the detail slot is open with the
\* title and the own detail text of the item whose card holds the button; an
\* experience entry without details has no button and never opens the modal.
C18_ButtonOpensOwnItem ==
    /\ lastEvent = "openDetail" =>
          LET item == Content(lastArgs.section)[lastArgs.index + 1]
          IN  /\ lastArgs.section \in {"experience", "projects", "certifications"}
              /\ isDetailModalOpen
              /\ modalContent.title = ItemText(lastArgs.section, item)
              /\ modalContent.desc = ItemDetails(lastArgs.section, item)
              /\ Truthy(ItemDetails(lastArgs.section, item))
    /\ Shown =>
          \A i \in DOMAIN TimelineProp :
              ~Truthy(TimelineProp[i].details) => rendered["experience"][i].button = NoButton

\* C18 witness: the button of the second experience card was activated and
\* the detail slot shows that entry's title and details.
C18_Witness ==
    /\ lastEvent = "openDetail"
    /\ lastArgs.section = "experience"
    /\ lastArgs.index = 1
    /\ Displayed("detail") = [title |-> experienceTimeline[2].title,
                              body |-> experienceTimeline[2].details]

\* C19: both slots show the one shared title and body: while both are open
\* they display the same, and an open or close on one slot that writes the
\* record changes what the other slot displays while it is open.
C19_SharedContent ==
    /\ (isAboutModalOpen /\ isDetailModalOpen) => Displayed("about") = Displayed("detail")
    /\ (lastEvent = "openDetail" /\ isAboutModalOpen) =>
          Displayed("about") = [title |-> lastArgs.title, body |-> lastArgs.desc]
    /\ (lastEvent = "openAbout" /\ isDetailModalOpen) =>
          Displayed("detail") = AboutShown
    /\ (Closing /\ Past(0).op = "closeDetail" /\ isAboutModalOpen) =>
          Displayed("about") = [title |-> EmptyContent.title, body |-> EmptyContent.desc]

\* C19 witness: the detail slot was opened for a project while the about slot
\* was open, and the about slot now shows the project's title and details.
C19_Witness ==
    /\ lastEvent = "openDetail"
    /\ isAboutModalOpen
    /\ isDetailModalOpen
    /\ Displayed("about") = [title |-> projects[1].title, body |-> projects[1].details]

\* C20: a session that starts with no persisted value has, once its initial
\* render completes and without any toggle, the ambient-derived theme
\* persisted; every session after an earlier one finds a persisted "light" or
\* "dark" and takes its theme from it, not from the ambient signal.
C20_InitialRenderPersists ==
    /\ (Starting /\ phase = "mounted" /\ savedRead = NoValue) =>
          storage = ThemeName(prefersDark)
    /\ (Starting /\ prevTheme # "none") =>
          /\ savedRead \in {"light", "dark"}
          /\ ThemeName(darkMode) = savedRead

\* C20 witness: nothing was persisted, the platform prefers dark, and after
\* the initial render alone the entry is "dark".
C20_Witness ==
    /\ lastEvent = "load"
    /\ prevTheme = "none"
    /\ savedRead = NoValue
    /\ prefersDark
    /\ storage = "dark"

\* C21: when the persisted value read at start is a non-empty string other
\* than "light" or "dark", the session starts light whatever the ambient
\* signal is, and once the initial render has completed the entry is "light"
\* and the root carries no dark flag.
C21_UnknownValueStartsLight ==
    (/\ Starting
     /\ phase = "mounted"
     /\ Truthy(savedRead)
     /\ savedRead \notin {"light", "dark"}) =>
        /\ ~darkMode
        /\ storage = "light"
        /\ ~rootDark

\* C21 witness: "system" was persisted and the platform prefers dark; the
\* session starts light and the entry has been overwritten with "light".
C21_Witness ==
    /\ lastEvent = "load"
    /\ savedRead = "system"
    /\ prefersDark
    /\ ~darkMode
    /\ storage = "light"

=============================================================================
